---- MODULE Spec2Model ----
(***************************************************************************)
(* A model of the post scheduler of flask-social-scheduler (src/app.py):   *)
(* the Post store, the persistent APScheduler job store, the scheduler     *)
(* thread with its executor, the startup reconciliation loop and the       *)
(* create / edit / delete request handlers.                                *)
(*                                                                         *)
(* Time is counted in seconds.  One foreground thread runs the module      *)
(* body (startup) and then one request at a time; the scheduler thread     *)
(* and its executor run beside it whenever the process is up.  posts.db    *)
(* and jobs.db survive a process stop; everything else is lost with it.    *)
(* The store gives every new Post an id that was never used before.        *)
(*                                                                         *)
(* Spec is app.py, FairSpec is app.py with its threads scheduled fairly,   *)
(* SpecTemp is the variant kept in tempCodeRunnerFile.py.                  *)
(***************************************************************************)
EXTENDS Integers, Sequences, FiniteSets, TLC

\* ---------------------------------------------------------------- bounds
MaxPosts == 2
MaxTime == 2
MaxCrashes == 1
MaxRequests == 2

\* misfire_grace_time of a job added without job defaults (seconds)
MisfireGrace == 1

Ids == 1..MaxPosts
Times == 0..MaxTime

VARIABLES
    posts,      \* posts.db: post id -> [status, scheduled_time]
    nextId,     \* the id the store gives the next Post
    jobs,       \* jobs.db: the set of stored jobs [id, run_date, args]
    executing,  \* job runs submitted to the executor: [id, args]
    now,        \* datetime.now(IST)
    pc,         \* where the foreground thread is
    cur,        \* the post the foreground handler works on
    todo,       \* scheduled_posts still to be processed by the startup loop
    emitted,    \* status_update events emitted, per post id
    edited,     \* posts whose edit form was committed at least once
    lastlog,    \* the last record the application wrote to the log
    requests,   \* requests taken so far
    crashes,    \* process stops so far
    second,     \* a second request thread inside setup_scheduler_once
    runs,       \* passes over the stored posts begun since the process
                \* started (2 stands for two or more)
    failed,     \* scheduled posts whose latest registration was logged as
                \* failed
    recovered   \* scheduled posts that had no task after a failed
                \* registration until the startup loop of this process
                \* registered them

vars == <<posts, nextId, jobs, executing, now, pc, cur, todo, emitted,
          edited, lastlog, requests, crashes, second, runs, failed,
          recovered>>

NoPost == 0

\* no second request thread is inside setup_scheduler_once
Outside == [pc |-> "out", todo |-> <<>>]

Log(e, i) == [ev |-> e, id |-> i]

\* ------------------------------------------------------------ pure parts

\* _job_id: f"post_{post_id}"
_job_id(post_id) == <<"post", post_id>>

Job(job_id, run_date, post_id) ==
    [id |-> job_id, run_date |-> run_date, args |-> post_id]

\* add_job without replace_existing: a job of the same id is left in place
add_job_noreplace(js, job_id, run_date, post_id) ==
    js \cup {Job(job_id, run_date, post_id)}

\* scheduler.add_job(..., id=job_id, replace_existing=True)
add_job(js, job_id, run_date, post_id) ==
    {j \in js : j.id # job_id} \cup {Job(job_id, run_date, post_id)}

\* scheduler.remove_job(job_id) raises JobLookupError when no such job
job_found(js, job_id) == \E j \in js : j.id = job_id

remove_job(js, job_id) == {j \in js : j.id # job_id}

\* the stored jobs that will call publish_post(id)
JobsOf(js, id) == {j \in js : j.args = id}

\* Post(...) with the column default status
new_post(scheduled_time) ==
    [status |-> "scheduled", scheduled_time |-> scheduled_time]

\* publish_post without db.session.commit(): the status change is lost
publish_post_nocommit(ps, em, post_id) ==
    IF post_id \notin DOMAIN ps
    THEN [posts |-> ps, emitted |-> em, log |-> Log("publish_not_found", post_id)]
    ELSE IF ps[post_id].status # "scheduled"
    THEN [posts |-> ps, emitted |-> em, log |-> Log("publish_skipped", post_id)]
    ELSE [posts |-> ps,
          emitted |-> [em EXCEPT ![post_id] = @ + 1],
          log |-> Log("publish_posted", post_id)]

\* publish_post without the check of the status
publish_post_nocheck(ps, em, post_id) ==
    IF post_id \notin DOMAIN ps
    THEN [posts |-> ps, emitted |-> em, log |-> Log("publish_not_found", post_id)]
    ELSE [posts |-> [ps EXCEPT ![post_id].status = "posted"],
          emitted |-> [em EXCEPT ![post_id] = @ + 1],
          log |-> Log("publish_posted", post_id)]

\* publish_post emitting the event before it looks for the Post
publish_post_emitfirst(ps, em, post_id) ==
    IF post_id \notin DOMAIN ps
    THEN [posts |-> ps, emitted |-> [em EXCEPT ![post_id] = @ + 1],
          log |-> Log("publish_not_found", post_id)]
    ELSE IF ps[post_id].status # "scheduled"
    THEN [posts |-> ps, emitted |-> em, log |-> Log("publish_skipped", post_id)]
    ELSE [posts |-> [ps EXCEPT ![post_id].status = "posted"],
          emitted |-> [em EXCEPT ![post_id] = @ + 1],
          log |-> Log("publish_posted", post_id)]

\* publish_post(post_id): the posts, the emitted events and the log after it
publish_post(ps, em, post_id) ==
    IF post_id \notin DOMAIN ps
    THEN [posts |-> ps, emitted |-> em, log |-> Log("publish_not_found", post_id)]
    ELSE IF ps[post_id].status # "scheduled"
    THEN [posts |-> ps, emitted |-> em, log |-> Log("publish_skipped", post_id)]
    ELSE [posts |-> [ps EXCEPT ![post_id].status = "posted"],
          emitted |-> [em EXCEPT ![post_id] = @ + 1],
          log |-> Log("publish_posted", post_id)]

\* Post.query.filter_by(status="scheduled").all(), in id order
RECURSIVE scheduled_from(_, _)
scheduled_from(ps, i) ==
    IF i > MaxPosts THEN <<>>
    ELSE IF i \in DOMAIN ps /\ ps[i].status = "scheduled"
         THEN <<i>> \o scheduled_from(ps, i + 1)
         ELSE scheduled_from(ps, i + 1)

scheduled_posts(ps) == scheduled_from(ps, 1)

\* ------------------------------------------------------------------ Init

Init ==
    /\ posts = <<>>
    /\ nextId = 1
    /\ jobs = {}
    /\ executing = {}
    /\ now = 0
    /\ pc = "down"
    /\ cur = NoPost
    /\ todo = <<>>
    /\ emitted = [i \in Ids |-> 0]
    /\ edited = {}
    /\ lastlog = Log("none", NoPost)
    /\ requests = 0
    /\ crashes = 0
    /\ second = Outside
    /\ runs = 0
    /\ failed = {}
    /\ recovered = {}

\* --------------------------------------------------- startup (module body)

\* scheduler.start(), db.create_all(), the query of the scheduled posts
Start ==
    /\ pc = "down"
    /\ pc' = "recon"
    /\ todo' = scheduled_posts(posts)
    /\ lastlog' = Log("startup_found", NoPost)
    /\ runs' = IF runs < 2 THEN runs + 1 ELSE runs
    /\ UNCHANGED <<posts, nextId, jobs, executing, now, cur, emitted, edited,
                   requests, crashes, second, failed, recovered>>

\* the loop with try/except around the whole loop instead of around add_job:
\* a rejected registration is logged and ends the loop
ReconStep_tryoutside ==
    /\ pc = "recon"
    /\ todo # <<>>
    /\ LET id == Head(todo)
           run_time == posts[id].scheduled_time
       IN  IF run_time <= now
           THEN LET r == publish_post(posts, emitted, id)
                IN  /\ posts' = r.posts
                    /\ emitted' = r.emitted
                    /\ lastlog' = r.log
                    /\ jobs' = jobs
                    /\ failed' = failed \ {id}
                    /\ recovered' = recovered \ {id}
           ELSE \E ok \in BOOLEAN :
                    /\ jobs' = IF ok THEN add_job(jobs, _job_id(id), run_time, id)
                                     ELSE jobs
                    /\ lastlog' = Log(IF ok THEN "startup_scheduled"
                                            ELSE "startup_failed", id)
                    /\ failed' = IF ok THEN failed \ {id} ELSE failed \cup {id}
                    /\ recovered' =
                           IF ok /\ id \in failed /\ JobsOf(jobs, id) = {}
                           THEN recovered \cup {id} ELSE recovered
                    /\ UNCHANGED <<posts, emitted>>
    /\ todo' = IF lastlog'.ev = "startup_failed" THEN <<>> ELSE Tail(todo)
    /\ UNCHANGED <<nextId, executing, now, pc, cur, edited, requests, crashes,
                   second, runs>>

\* one turn of the loop over scheduled_posts
ReconStep ==
    /\ pc = "recon"
    /\ todo # <<>>
    /\ LET id == Head(todo)
           run_time == posts[id].scheduled_time
       IN  IF run_time <= now
           THEN LET r == publish_post(posts, emitted, id)
                IN  /\ posts' = r.posts
                    /\ emitted' = r.emitted
                    /\ lastlog' = r.log
                    /\ jobs' = jobs
                    /\ failed' = failed \ {id}
                    /\ recovered' = recovered \ {id}
           ELSE \E ok \in BOOLEAN :
                    /\ jobs' = IF ok THEN add_job(jobs, _job_id(id), run_time, id)
                                     ELSE jobs
                    /\ lastlog' = Log(IF ok THEN "startup_scheduled"
                                            ELSE "startup_failed", id)
                    /\ failed' = IF ok THEN failed \ {id} ELSE failed \cup {id}
                    /\ recovered' =
                           IF ok /\ id \in failed /\ JobsOf(jobs, id) = {}
                           THEN recovered \cup {id} ELSE recovered
                    /\ UNCHANGED <<posts, emitted>>
    /\ todo' = Tail(todo)
    /\ UNCHANGED <<nextId, executing, now, pc, cur, edited, requests, crashes,
                   second, runs>>

\* the loop is over: the server takes requests
ReconDone ==
    /\ pc = "recon"
    /\ todo = <<>>
    /\ pc' = "idle"
    /\ UNCHANGED <<posts, nextId, jobs, executing, now, cur, todo, emitted,
                   edited, lastlog, requests, crashes, second, runs, failed,
                   recovered>>

\* ------------------------------------------------------- request handlers

\* add_job with no except clause around it: a rejection leaves the handler
try_add_job_raise(js, ok, post_id, run_date, who) ==
    IF ok
    THEN [jobs |-> add_job(js, _job_id(post_id), run_date, post_id),
          log |-> Log(who \o "_scheduled", post_id), raised |-> FALSE]
    ELSE [jobs |-> js,
          log |-> Log(who \o "_failed", post_id), raised |-> TRUE]

\* try: scheduler.add_job(...) except Exception: logging.error(...)
\* `ok` is whether the job store accepts the registration.
try_add_job(js, ok, post_id, run_date, who) ==
    IF ok
    THEN [jobs |-> add_job(js, _job_id(post_id), run_date, post_id),
          log |-> Log(who \o "_scheduled", post_id), raised |-> FALSE]
    ELSE [jobs |-> js,
          log |-> Log(who \o "_failed", post_id), raised |-> FALSE]

\* remove_job with no except clause around it: JobLookupError leaves delete
try_remove_job_raise(js, post_id) ==
    IF job_found(js, _job_id(post_id))
    THEN [jobs |-> remove_job(js, _job_id(post_id)),
          log |-> Log("delete_removed", post_id), raised |-> FALSE]
    ELSE [jobs |-> js,
          log |-> Log("delete_job_missing", post_id), raised |-> TRUE]

\* try: scheduler.remove_job(job_id) except Exception: logging.warning(...)
try_remove_job(js, post_id) ==
    IF job_found(js, _job_id(post_id))
    THEN [jobs |-> remove_job(js, _job_id(post_id)),
          log |-> Log("delete_removed", post_id), raised |-> FALSE]
    ELSE [jobs |-> js,
          log |-> Log("delete_job_missing", post_id), raised |-> FALSE]

\* An exception that leaves a view function: Flask logs it and answers 500.
handler_log(r, post_id) == IF r.raised THEN Log("exception", post_id) ELSE r.log

\* schedule(), POST: the new Post is committed
ScheduleCommit(t) ==
    /\ pc = "idle"
    /\ requests < MaxRequests
    /\ nextId <= MaxPosts
    /\ posts' = [i \in DOMAIN posts \cup {nextId} |->
                    IF i = nextId THEN new_post(t) ELSE posts[i]]
    /\ cur' = nextId
    /\ nextId' = nextId + 1
    /\ requests' = requests + 1
    /\ pc' = "schedule_add"
    /\ UNCHANGED <<jobs, executing, now, todo, emitted, edited, lastlog,
                   crashes, second, runs, failed,
                   recovered>>

\* schedule(), POST: the job is registered, the requester is redirected
ScheduleAdd(ok) ==
    /\ pc = "schedule_add"
    /\ LET r == try_add_job(jobs, ok, cur, posts[cur].scheduled_time, "schedule")
       IN  /\ jobs' = r.jobs
           /\ lastlog' = handler_log(r, cur)
    /\ failed' = IF ok \/ posts[cur].status # "scheduled"
                 THEN failed \ {cur} ELSE failed \cup {cur}
    /\ pc' = "idle"
    /\ cur' = NoPost
    /\ UNCHANGED <<posts, nextId, executing, now, todo, emitted, edited,
                   requests, crashes, second, runs, recovered>>

\* an edit that also puts the status back to the column default
edit_post_reset(post, t) ==
    [post EXCEPT !.scheduled_time = t, !.status = "scheduled"]

\* the fields of the edit form written to the Post
edit_post(post, t) == [post EXCEPT !.scheduled_time = t]

\* edit(id), POST: get_or_404, the form is written to the Post and committed
EditCommit(id, t) ==
    /\ pc = "idle"
    /\ requests < MaxRequests
    /\ id \in DOMAIN posts
    /\ posts' = [posts EXCEPT ![id] = edit_post(@, t)]
    /\ edited' = edited \cup {id}
    /\ cur' = id
    /\ requests' = requests + 1
    /\ pc' = "edit_add"
    /\ UNCHANGED <<nextId, jobs, executing, now, todo, emitted, lastlog,
                   crashes, second, runs, failed,
                   recovered>>

\* edit(id), POST: the job is registered again, the requester is redirected
EditAdd(ok) ==
    /\ pc = "edit_add"
    /\ LET r == try_add_job(jobs, ok, cur, posts[cur].scheduled_time, "edit")
       IN  /\ jobs' = r.jobs
           /\ lastlog' = handler_log(r, cur)
    /\ failed' = IF ok \/ posts[cur].status # "scheduled"
                 THEN failed \ {cur} ELSE failed \cup {cur}
    /\ pc' = "idle"
    /\ cur' = NoPost
    /\ UNCHANGED <<posts, nextId, executing, now, todo, emitted, edited,
                   requests, crashes, second, runs, recovered>>

\* delete(id): get_or_404, the job is removed if it exists
DeleteCancel(id) ==
    /\ pc = "idle"
    /\ requests < MaxRequests
    /\ id \in DOMAIN posts
    /\ LET r == try_remove_job(jobs, id)
       IN  /\ jobs' = r.jobs
           /\ lastlog' = handler_log(r, id)
           /\ pc' = IF r.raised THEN "idle" ELSE "delete_db"
           /\ cur' = IF r.raised THEN NoPost ELSE id
    /\ requests' = requests + 1
    /\ UNCHANGED <<posts, nextId, executing, now, todo, emitted, edited,
                   crashes, second, runs, failed,
                   recovered>>

\* delete(id): the Post is deleted and committed, the requester is redirected
DeleteCommit ==
    /\ pc = "delete_db"
    /\ posts' = [i \in DOMAIN posts \ {cur} |-> posts[i]]
    /\ pc' = "idle"
    /\ cur' = NoPost
    /\ failed' = failed \ {cur}
    /\ recovered' = recovered \ {cur}
    /\ UNCHANGED <<nextId, jobs, executing, now, todo, emitted, edited,
                   lastlog, requests, crashes, second, runs>>

\* --------------------------------------------- scheduler thread, executor

\* A due job is taken out of the job store by the scheduler thread.  Its run
\* is submitted to the executor unless the run time was missed by more than
\* the grace time or a run of the same job id is still executing.
Dequeue(j) ==
    /\ pc # "down"
    /\ j \in jobs
    /\ j.run_date <= now
    /\ jobs' = jobs \ {j}
    /\ IF now - j.run_date > MisfireGrace
       THEN executing' = executing
       ELSE IF \E e \in executing : e.id = j.id
       THEN executing' = executing
       ELSE executing' = executing \cup {[id |-> j.id, args |-> j.args]}
    /\ UNCHANGED <<posts, nextId, now, pc, cur, todo, emitted, edited, lastlog,
                   requests, crashes, second, runs, failed,
                   recovered>>

\* The executor runs a publish_post(post_id) that also cancels the tasks of
\* the Post.
RunCallback_cancel(e) ==
    /\ pc # "down"
    /\ e \in executing
    /\ LET r == publish_post(posts, emitted, e.args)
       IN  /\ posts' = r.posts
           /\ emitted' = r.emitted
           /\ lastlog' = r.log
    /\ executing' = executing \ {e}
    /\ jobs' = remove_job(jobs, _job_id(e.args))
    /\ failed' = failed \ {e.args}
    /\ recovered' = recovered \ {e.args}
    /\ UNCHANGED <<nextId, now, pc, cur, todo, edited, requests, crashes,
                   second, runs>>

\* The executor runs publish_post(post_id).
RunCallback(e) ==
    /\ pc # "down"
    /\ e \in executing
    /\ LET r == publish_post(posts, emitted, e.args)
       IN  /\ posts' = r.posts
           /\ emitted' = r.emitted
           /\ lastlog' = r.log
    /\ executing' = executing \ {e}
    /\ failed' = failed \ {e.args}
    /\ recovered' = recovered \ {e.args}
    /\ UNCHANGED <<nextId, jobs, now, pc, cur, todo, edited, requests, crashes,
                   second, runs>>

\* ---------------------------------------------------------- environment

\* A second passes.  While the process is up the scheduler thread wakes at
\* the next run date, so no second passes with a due job still in the store.
Tick ==
    /\ now < MaxTime
    /\ pc = "down" \/ \A j \in jobs : j.run_date > now
    /\ now' = now + 1
    /\ UNCHANGED <<posts, nextId, jobs, executing, pc, cur, todo, emitted,
                   edited, lastlog, requests, crashes, second, runs, failed,
                   recovered>>

\* The process stops: threads and the request in progress are lost, the two
\* databases stay.
Crash ==
    /\ pc # "down"
    /\ crashes < MaxCrashes
    /\ crashes' = crashes + 1
    /\ pc' = "down"
    /\ executing' = {}
    /\ todo' = <<>>
    /\ cur' = NoPost
    /\ second' = Outside
    /\ runs' = 0
    /\ recovered' = {}
    /\ UNCHANGED <<posts, nextId, jobs, now, emitted, edited, lastlog, requests,
                   failed>>

\* ------------------------------------ the variant tempCodeRunnerFile.py
\* The same application in an earlier state: the status of a new Post is
\* "pending", the job id carries the run time, the pending posts are set up
\* before the first request instead of at import, edit and delete leave the
\* job store alone, and only ConflictingIdError is caught around add_job.

\* f"post_{post.id}_{int(run_time.timestamp())}"
temp_job_id(post_id, run_time) == <<"post", post_id, run_time>>

\* Post(...) with the column default status
temp_new_post(scheduled_time) ==
    [status |-> "pending", scheduled_time |-> scheduled_time]

\* publish_post(post_id)
temp_publish_post(ps, em, post_id) ==
    IF post_id \in DOMAIN ps /\ ps[post_id].status = "pending"
    THEN [posts |-> [ps EXCEPT ![post_id].status = "posted"],
          emitted |-> [em EXCEPT ![post_id] = @ + 1],
          printed |-> TRUE]
    ELSE [posts |-> ps, emitted |-> em, printed |-> FALSE]

\* Post.query.filter(Post.status=="pending").all(), in id order
RECURSIVE pending_from(_, _)
pending_from(ps, i) ==
    IF i > MaxPosts THEN <<>>
    ELSE IF i \in DOMAIN ps /\ ps[i].status = "pending"
         THEN <<i>> \o pending_from(ps, i + 1)
         ELSE pending_from(ps, i + 1)

\* scheduler.start() at import; app._scheduler_setup_done is not set
TempStart ==
    /\ pc = "down"
    /\ pc' = "fresh"
    /\ UNCHANGED <<posts, nextId, jobs, executing, now, cur, todo, emitted,
                   edited, lastlog, requests, crashes, second, runs, failed,
                   recovered>>

\* setup_scheduler_once, before the first request: app._scheduler_setup_done
\* is not set, the pending posts are read
TempSetupBegin ==
    /\ pc = "fresh"
    /\ second.pc # "done"
    /\ pc' = "setup"
    /\ todo' = pending_from(posts, 1)
    /\ runs' = IF runs < 2 THEN runs + 1 ELSE runs
    /\ UNCHANGED <<posts, nextId, jobs, executing, now, cur, emitted, edited,
                   lastlog, requests, crashes, second, failed,
                   recovered>>

\* setup_scheduler_once: one turn of the loop.  A registration the job store
\* rejects leaves the function as an exception, the flag not set.
TempSetupStep ==
    /\ pc = "setup"
    /\ todo # <<>>
    /\ LET id == Head(todo)
           run_time == posts[id].scheduled_time
       IN  IF run_time <= now
           THEN LET r == temp_publish_post(posts, emitted, id)
                IN  /\ posts' = r.posts
                    /\ emitted' = r.emitted
                    /\ lastlog' = IF r.printed THEN Log("publish_posted", id)
                                               ELSE lastlog
                    /\ UNCHANGED <<jobs, pc>>
                    /\ todo' = Tail(todo)
           ELSE \E ok \in BOOLEAN :
                    /\ jobs' = IF ok
                               THEN add_job(jobs, temp_job_id(id, run_time),
                                            run_time, id)
                               ELSE jobs
                    /\ pc' = IF ok THEN pc ELSE "fresh"
                    /\ todo' = IF ok THEN Tail(todo) ELSE <<>>
                    /\ lastlog' = IF ok THEN lastlog ELSE Log("exception", id)
                    /\ UNCHANGED <<posts, emitted>>
    /\ UNCHANGED <<nextId, executing, now, cur, edited, requests, crashes,
                   second, runs, failed,
                   recovered>>

\* setup_scheduler_once: app._scheduler_setup_done = True
TempSetupDone ==
    /\ pc = "setup"
    /\ todo = <<>>
    /\ pc' = "idle"
    /\ UNCHANGED <<posts, nextId, jobs, executing, now, cur, todo, emitted,
                   edited, lastlog, requests, crashes, second, runs, failed,
                   recovered>>

\* setup_scheduler_once finds app._scheduler_setup_done set by another thread
TempSetupSkip ==
    /\ pc = "fresh"
    /\ second.pc = "done"
    /\ pc' = "idle"
    /\ UNCHANGED <<posts, nextId, jobs, executing, now, cur, todo, emitted,
                   edited, lastlog, requests, crashes, second, runs, failed,
                   recovered>>

\* the posts a thread has read, each with the scheduled_time it has read
snapshot(ps, ids) ==
    [k \in 1..Len(ids) |-> [id |-> ids[k], run_time |-> ps[ids[k]].scheduled_time]]

\* setup_scheduler_once in a second request thread, entered while the first
\* is still in its loop: app._scheduler_setup_done is not set yet
TempSetupBegin2 ==
    /\ pc = "setup"
    /\ second.pc = "out"
    /\ second' = [pc |-> "setup", todo |-> snapshot(posts, pending_from(posts, 1))]
    /\ runs' = IF runs < 2 THEN runs + 1 ELSE runs
    /\ UNCHANGED <<posts, nextId, jobs, executing, now, pc, cur, todo, emitted,
                   edited, lastlog, requests, crashes, failed,
                   recovered>>

\* setup_scheduler_once in the second thread: one turn of the loop
TempSetupStep2 ==
    /\ second.pc = "setup"
    /\ second.todo # <<>>
    /\ pc # "down"
    /\ LET id == Head(second.todo).id
           run_time == Head(second.todo).run_time
       IN  IF run_time <= now
           THEN LET r == temp_publish_post(posts, emitted, id)
                IN  /\ posts' = r.posts
                    /\ emitted' = r.emitted
                    /\ lastlog' = IF r.printed THEN Log("publish_posted", id)
                                               ELSE lastlog
                    /\ jobs' = jobs
                    /\ second' = [second EXCEPT !.todo = Tail(@)]
           ELSE \E ok \in BOOLEAN :
                    /\ jobs' = IF ok
                               THEN add_job(jobs, temp_job_id(id, run_time),
                                            run_time, id)
                               ELSE jobs
                    /\ second' = IF ok THEN [second EXCEPT !.todo = Tail(@)]
                                       ELSE Outside
                    /\ lastlog' = IF ok THEN lastlog ELSE Log("exception", id)
                    /\ UNCHANGED <<posts, emitted>>
    /\ UNCHANGED <<nextId, executing, now, pc, cur, todo, edited, requests,
                   crashes, runs, failed,
                   recovered>>

\* setup_scheduler_once in the second thread:
\* app._scheduler_setup_done = True
TempSetupDone2 ==
    /\ second.pc = "setup"
    /\ second.todo = <<>>
    /\ pc # "down"
    /\ second' = [pc |-> "done", todo |-> <<>>]
    /\ UNCHANGED <<posts, nextId, jobs, executing, now, pc, cur, todo, emitted,
                   edited, lastlog, requests, crashes, runs, failed,
                   recovered>>

\* schedule(), POST: the new Post is committed
TempScheduleCommit(t) ==
    /\ pc = "idle"
    /\ requests < MaxRequests
    /\ nextId <= MaxPosts
    /\ posts' = [i \in DOMAIN posts \cup {nextId} |->
                    IF i = nextId THEN temp_new_post(t) ELSE posts[i]]
    /\ cur' = nextId
    /\ nextId' = nextId + 1
    /\ requests' = requests + 1
    /\ pc' = "schedule_add"
    /\ UNCHANGED <<jobs, executing, now, todo, emitted, edited, lastlog,
                   crashes, second, runs, failed,
                   recovered>>

\* schedule(), POST: the job is registered under the id with the run time
TempScheduleAdd(ok) ==
    /\ pc = "schedule_add"
    /\ LET t == posts[cur].scheduled_time
       IN  /\ jobs' = IF ok THEN add_job(jobs, temp_job_id(cur, t), t, cur)
                            ELSE jobs
           /\ lastlog' = IF ok THEN lastlog ELSE Log("exception", cur)
    /\ pc' = "idle"
    /\ cur' = NoPost
    /\ UNCHANGED <<posts, nextId, executing, now, todo, emitted, edited,
                   requests, crashes, second, runs, failed,
                   recovered>>

\* edit(id), POST: the form is written to the Post and committed
TempEdit(id, t) ==
    /\ pc = "idle"
    /\ requests < MaxRequests
    /\ id \in DOMAIN posts
    /\ posts' = [posts EXCEPT ![id] = edit_post(@, t)]
    /\ edited' = edited \cup {id}
    /\ requests' = requests + 1
    /\ UNCHANGED <<nextId, jobs, executing, now, pc, cur, todo, emitted,
                   lastlog, crashes, second, runs, failed,
                   recovered>>

\* delete(id): the Post is deleted and committed
TempDelete(id) ==
    /\ pc = "idle"
    /\ requests < MaxRequests
    /\ id \in DOMAIN posts
    /\ posts' = [i \in DOMAIN posts \ {id} |-> posts[i]]
    /\ requests' = requests + 1
    /\ UNCHANGED <<nextId, jobs, executing, now, pc, cur, todo, emitted,
                   edited, lastlog, crashes, second, runs, failed,
                   recovered>>

\* The executor runs publish_post(post_id).
TempRunCallback(e) ==
    /\ pc # "down"
    /\ e \in executing
    /\ LET r == temp_publish_post(posts, emitted, e.args)
       IN  /\ posts' = r.posts
           /\ emitted' = r.emitted
           /\ lastlog' = IF r.printed THEN Log("publish_posted", e.args)
                                      ELSE lastlog
    /\ executing' = executing \ {e}
    /\ UNCHANGED <<nextId, jobs, now, pc, cur, todo, edited, requests, crashes,
                   second, runs, failed,
                   recovered>>

\* ------------------------------------------------------------------ Spec

Next ==
    \/ Start
    \/ ReconStep
    \/ ReconDone
    \/ \E t \in Times : ScheduleCommit(t)
    \/ \E ok \in BOOLEAN : ScheduleAdd(ok)
    \/ \E id \in Ids, t \in Times : EditCommit(id, t)
    \/ \E ok \in BOOLEAN : EditAdd(ok)
    \/ \E id \in Ids : DeleteCancel(id)
    \/ DeleteCommit
    \/ \E j \in jobs : Dequeue(j)
    \/ \E e \in executing : RunCallback(e)
    \/ Tick
    \/ Crash

Spec == Init /\ [][Next]_vars

NextTemp ==
    \/ TempStart
    \/ TempSetupBegin
    \/ TempSetupStep
    \/ TempSetupDone
    \/ TempSetupSkip
    \/ TempSetupBegin2
    \/ TempSetupStep2
    \/ TempSetupDone2
    \/ \E t \in Times : TempScheduleCommit(t)
    \/ \E ok \in BOOLEAN : TempScheduleAdd(ok)
    \/ \E id \in Ids, t \in Times : TempEdit(id, t)
    \/ \E id \in Ids : TempDelete(id)
    \/ \E j \in jobs : Dequeue(j)
    \/ \E e \in executing : TempRunCallback(e)
    \/ Tick
    \/ Crash

SpecTemp == Init /\ [][NextTemp]_vars

\* What goes on without a requester or a process stop: the foreground thread
\* continues what it has begun, a stopped process is started again, the
\* scheduler thread and the executor run, and time passes.
Progress ==
    \/ Start
    \/ ReconStep
    \/ ReconDone
    \/ \E ok \in BOOLEAN : ScheduleAdd(ok)
    \/ \E ok \in BOOLEAN : EditAdd(ok)
    \/ DeleteCommit
    \/ \E j \in jobs : Dequeue(j)
    \/ \E e \in executing : RunCallback(e)
    \/ Tick

\* The program does not stop for good while one of these steps can be taken.
FairSpec == Spec /\ WF_vars(Progress)

\* ------------------------------------------------------------ properties

Scheduled(id) == id \in DOMAIN posts /\ posts[id].status = "scheduled"

Posted(id) == id \in DOMAIN posts /\ posts[id].status = "posted"

\* a step in which the Publish Handler runs for post id: the executor's run
\* of a fired job, or the startup loop's immediate publish
CallbackStep(id) ==
    /\ pc' # "down"
    /\ \E e \in executing : e.args = id /\ executing' = executing \ {e}

ImmediateStep(id) ==
    /\ pc = "recon" /\ pc' = "recon"
    /\ todo # <<>> /\ Head(todo) = id /\ todo' = Tail(todo)
    /\ posts[id].scheduled_time <= now

PublishStep(id) == CallbackStep(id) \/ ImmediateStep(id)

\* a step in which post id goes from scheduled to posted
Transition(id) ==
    /\ Scheduled(id)
    /\ id \in DOMAIN posts'
    /\ posts'[id].status = "posted"

\* C1: every scheduled Post has at most one live task and every posted Post
\* has none, in every reachable state.
C1_TaskPerStatus ==
    \A id \in DOMAIN posts :
        /\ posts[id].status = "scheduled" => Cardinality(JobsOf(jobs, id)) <= 1
        /\ posts[id].status = "posted" => JobsOf(jobs, id) = {}

\* create has just registered the task of post id at a time not yet past
Created(id) ==
    /\ lastlog = Log("schedule_scheduled", id)
    /\ Scheduled(id)
    /\ id \notin edited
    /\ posts[id].scheduled_time >= now

\* an edit or a delete of post id has been taken up, or a later registration
\* of its task at startup was rejected
Disturbed(id) ==
    \/ id \in edited
    \/ id \notin DOMAIN posts
    \/ pc = "delete_db" /\ cur = id
    \/ lastlog = Log("startup_failed", id)

C3_NeverBeforeScheduledTime ==
    [][\A id \in Ids : Transition(id) => now >= posts'[id].scheduled_time]_vars

C5_RecoveryLeavesNoTask ==
    [][\A id \in Ids :
        ImmediateStep(id) =>
            /\ posts'[id].status = "posted"
            /\ JobsOf(jobs', id) = {}]_vars

\* a step in which an edit of post id ends: the second step of edit in
\* app.py, the only step of edit in tempCodeRunnerFile.py
EditEnds(id) ==
    \/ pc = "edit_add" /\ cur = id /\ pc' = "idle"
           /\ lastlog' = Log("edit_scheduled", id)
    \/ pc = "idle" /\ pc' = "idle" /\ requests' = requests + 1
           /\ id \in DOMAIN posts /\ id \in DOMAIN posts'
           /\ posts'[id].scheduled_time # posts[id].scheduled_time

\* C6: no Post ever has two live tasks, and an edit that ends leaves exactly
\* one live task of the Post, at the Post's new scheduled_time.
C6_EditReplaces ==
    /\ [](\A id \in Ids : Cardinality(JobsOf(jobs, id)) <= 1)
    /\ [][\A id \in Ids :
            EditEnds(id) =>
                /\ Cardinality(JobsOf(jobs', id)) = 1
                /\ \A j \in JobsOf(jobs', id) :
                        j.run_date = posts'[id].scheduled_time]_vars

\* C7: a Publish Handler run that finds the Post deleted changes no Post and
\* emits nothing.
C7_DeletedPostIsNoOp ==
    [][\A id \in Ids :
        CallbackStep(id) /\ id \notin DOMAIN posts =>
            /\ posts' = posts
            /\ emitted' = emitted
            /\ lastlog' = Log("publish_not_found", id)]_vars

\* C7 witness: the callback of a dequeued job ran after its Post was deleted.
C7_Witness ==
    \E id \in Ids :
        /\ lastlog = Log("publish_not_found", id)
        /\ id < nextId
        /\ id \notin DOMAIN posts
        /\ emitted[id] = 0

\* C8: a posted Post never becomes scheduled again, only a Publish Handler
\* run changes a status, and committing an edit leaves the status as it was.
C8_StatusMonotonic ==
    [][\A id \in DOMAIN posts \cap DOMAIN posts' :
        /\ posts[id].status = "posted" => posts'[id].status = "posted"
        /\ posts'[id].status # posts[id].status => PublishStep(id)
        /\ pc = "idle" /\ pc' = "edit_add" =>
                posts'[id].status = posts[id].status]_vars

\* C8 witness: a Post that was posted before the last start of the process
\* (nothing has been logged since that start) is being edited.
C8_Witness ==
    /\ pc = "edit_add"
    /\ lastlog = Log("startup_found", NoPost)
    /\ posts[cur].status = "posted"
    /\ emitted[cur] = 1

\* a step in which delete(id) is taken up
DeleteTaken(id) ==
    /\ pc = "idle"
    /\ id \in DOMAIN posts
    /\ requests' = requests + 1
    /\ nextId' = nextId
    /\ pc' # "edit_add"
    /\ lastlog'.id = id

\* C9: delete of a Post that has no task logs the missing job, raises nothing
\* and goes on to delete the record.
C9_CancelTolerance ==
    [][/\ \A id \in Ids :
            DeleteTaken(id) /\ ~job_found(jobs, _job_id(id)) =>
                /\ lastlog' = Log("delete_job_missing", id)
                /\ pc' = "delete_db"
                /\ cur' = id
       /\ pc = "delete_db" /\ pc' = "idle" => cur \notin DOMAIN posts']_vars

\* C9 witness: a Post without a task has been deleted.
C9_Witness ==
    \E id \in Ids :
        /\ lastlog = Log("delete_job_missing", id)
        /\ pc = "idle"
        /\ id < nextId
        /\ id \notin DOMAIN posts

\* a step in which create or edit ends, having tried to register the task
AddStep == pc \in {"schedule_add", "edit_add"} /\ pc' = "idle"

RegistrationFailed(l, id) ==
    l = Log("schedule_failed", id) \/ l = Log("edit_failed", id)

\* C10 (amended): a rejected registration in create or edit raises nothing,
\* leaves the committed Post as it is and leaves the job store as it was: no
\* task after create, the previously registered task after edit.
C10_FailureContained ==
    [][AddStep =>
        /\ lastlog'.ev # "exception"
        /\ posts' = posts
        /\ RegistrationFailed(lastlog', cur) =>
            /\ jobs' = jobs
            /\ pc = "schedule_add" =>
                /\ posts'[cur].status = "scheduled"
                /\ JobsOf(jobs', cur) = {}]_vars

\* C10 witness: an edit whose registration was rejected left the task of the
\* Post at another time than the Post's.
C10_Witness ==
    \E id \in Ids :
        /\ lastlog = Log("edit_failed", id)
        /\ Scheduled(id)
        /\ \E j \in JobsOf(jobs, id) : j.run_date # posts[id].scheduled_time

\* C10 as stated: moreover the Post stays scheduled after the failure, up to
\* the next restart.
C10_StaysScheduledUntilRestart ==
    [][/\ AddStep =>
            /\ lastlog'.ev # "exception"
            /\ posts' = posts
       /\ \A id \in Ids :
            RegistrationFailed(lastlog, id) /\ Scheduled(id)
                /\ id \in DOMAIN posts' => posts'[id].status = "scheduled"]_vars

\* C11: the pass over the stored posts is begun at most once after a process
\* start, and no two threads are ever inside it at the same time.
C11_ReconOnceNotConcurrent ==
    /\ runs <= 1
    /\ ~(pc \in {"recon", "setup"} /\ second.pc = "setup")

\* a step in which create, edit or the startup loop completes
Completes == pc \in {"schedule_add", "edit_add", "recon"} /\ pc' = "idle"

\* C12: when create, edit or the startup loop has completed, every task in
\* the job store of a stored Post is at the Post's scheduled_time.
C12_NoStaleFireTime ==
    [][Completes =>
        \A j \in jobs' :
            j.args \in DOMAIN posts' =>
                j.run_date = posts'[j.args].scheduled_time]_vars

\* the turn of the startup loop for post id
ReconTurn(id) ==
    /\ pc = "recon" /\ pc' = "recon"
    /\ todo # <<>> /\ Head(todo) = id
    /\ todo' = Tail(todo)

\* the startup loop returns
ReconReturns == pc = "recon" /\ pc' = "idle"

\* the one task post id should have
TaskOf(id) == Job(_job_id(id), posts[id].scheduled_time, id)

\* C13 (amended): a turn of the startup loop whose registration is not
\* rejected leaves the Post posted if its scheduled_time is not after the time
\* of the turn, and otherwise with exactly one task, at its scheduled_time.
\* When the loop returns and no scheduled Post has a failed registration,
\* every Post is posted, or has exactly that one task, or has become due
\* during the pass and its task has been taken by the scheduler thread.
C13_Recovery ==
    /\ [][\A id \in Ids :
            ReconTurn(id) /\ lastlog' # Log("startup_failed", id) =>
                IF posts[id].scheduled_time <= now
                THEN Posted(id)'
                ELSE JobsOf(jobs', id) = {TaskOf(id)}]_vars
    /\ [][ReconReturns /\ (\A id \in Ids : Scheduled(id) => id \notin failed) =>
            \A id \in DOMAIN posts :
                \/ Posted(id)
                \/ JobsOf(jobs, id) = {TaskOf(id)}
                \/ JobsOf(jobs, id) = {} /\ posts[id].scheduled_time <= now]_vars

\* C13 witness: the startup loop has returned after it registered the task
\* of a Post that had none since a rejected registration.
C13_Witness ==
    \E id \in recovered :
        /\ pc = "idle"
        /\ lastlog = Log("startup_scheduled", id)
        /\ Scheduled(id)
        /\ JobsOf(jobs, id) = {TaskOf(id)}

\* C13 as stated: when the startup loop returns without a failed
\* registration, every scheduled Post has exactly one task in the job store,
\* at its scheduled_time, and every Post whose scheduled_time is not after the
\* time of the return is posted.
C13_RecoveredAtReturn ==
    [][ReconReturns /\ failed = {} =>
        \A id \in DOMAIN posts :
            /\ Scheduled(id) => JobsOf(jobs, id) = {TaskOf(id)}
            /\ posts[id].scheduled_time <= now => Posted(id)]_vars

\* C14: a step that deletes a Post record leaves no task of that Post in
\* the job store, and between foreground operations every task in the job
\* store belongs to a stored Post.
C14_NoTaskOutlivesPost ==
    /\ [][\A id \in DOMAIN posts :
            id \notin DOMAIN posts' => JobsOf(jobs', id) = {}]_vars
    /\ [](pc = "idle" => \A j \in jobs : j.args \in DOMAIN posts)

\* a step in which the scheduler thread takes job j out of the job store
TakenByScheduler(j) ==
    /\ j \in jobs
    /\ jobs' = jobs \ {j}
    /\ pc' = pc
    /\ todo' = todo

\* C15: in a process that has run without a stop, so that a task is overdue
\* only if it was registered with a time already past, every task the
\* scheduler thread takes out of the store is fired: its run is handed to the
\* executor (unless a run of the same task is still executing).
C15_PastTaskFires ==
    [][\A j \in jobs :
        /\ crashes = 0
        /\ TakenByScheduler(j)
        /\ ~(\E e \in executing : e.id = j.id)
        => [id |-> j.id, args |-> j.args] \in executing']_vars

\* the turn of the startup loop for post id ends with its registration
\* rejected
RegistrationRejected(id) ==
    /\ pc = "recon"
    /\ todo # <<>> /\ Head(todo) = id
    /\ lastlog # Log("startup_failed", id)
    /\ lastlog' = Log("startup_failed", id)

\* C16: a rejected registration in the startup loop is logged and raises
\* nothing, the loop goes on with the Posts that remain, every turn either
\* publishes its Post, registers its task or logs the failure, and the loop
\* is left only when no Post remains (or the process stops).
C16_PartialFailureTolerated ==
    [][/\ \A id \in Ids :
            RegistrationRejected(id) =>
                /\ pc' = "recon"
                /\ todo' = Tail(todo)
                /\ posts' = posts /\ jobs' = jobs
       /\ pc = "recon" /\ todo' # todo /\ pc' # "down" =>
            /\ pc' = "recon"
            /\ todo' = Tail(todo)
            /\ lastlog'.ev # "exception"
            /\ \E id \in Ids :
                    /\ id = Head(todo)
                    /\ \/ Posted(id)'
                       \/ JobsOf(jobs', id) = {TaskOf(id)}
                       \/ lastlog' = Log("startup_failed", id)
       /\ pc = "recon" /\ pc' \notin {"recon", "down"} =>
            pc' = "idle" /\ todo = <<>>]_vars

\* C16 witness: the startup loop has returned; the registration of the first
\* Post was rejected and the task of the second Post has been registered.
C16_Witness ==
    /\ pc = "idle"
    /\ lastlog = Log("startup_scheduled", 2)
    /\ Scheduled(1) /\ 1 \in failed /\ JobsOf(jobs, 1) = {}
    /\ JobsOf(jobs, 2) = {TaskOf(2)}

\* C17: the id of a task is determined by the post id alone, so two stored
\* tasks of one Post have the same id and are one task: registering a Post
\* again, after its time has changed or after a restart, replaces its task.
C17_TaskIdFromPostIdAlone ==
    /\ \A j1, j2 \in jobs : j1.args = j2.args => j1.id = j2.id
    /\ \A id \in Ids : Cardinality(JobsOf(jobs, id)) <= 1

\* C18: a status_update event for a Post is emitted only in a Publish Handler
\* run that commits the status posted of that Post, every Post with an event
\* emitted has been committed as posted, and a Publish Handler run that
\* commits nothing emits nothing.
C18_EmitOnlyAfterCommit ==
    /\ [][\A id \in Ids :
            /\ emitted'[id] # emitted[id] =>
                    /\ PublishStep(id)
                    /\ Transition(id)
                    /\ emitted'[id] = emitted[id] + 1
            /\ PublishStep(id) /\ posts' = posts => emitted' = emitted]_vars
    /\ [](\A id \in DOMAIN posts : emitted[id] > 0 => Posted(id))

\* C18 witness: the startup loop has published an overdue Post itself: the
\* Post is committed as posted and its one event is emitted.
C18_Witness ==
    \E id \in Ids :
        /\ pc = "recon"
        /\ lastlog = Log("publish_posted", id)
        /\ Posted(id)
        /\ emitted[id] = 1
        /\ executing = {}

\* C19: a Publish Handler run, by the executor or by the startup loop,
\* whatever it finds, leaves the job store as it was.
C19_PublishLeavesRegistry ==
    [][\A id \in Ids : PublishStep(id) => jobs' = jobs]_vars

\* C19 witness: the Publish Handler has skipped a Post that was already
\* posted, and a task of that Post is still in the job store.
C19_Witness ==
    \E id \in Ids :
        /\ lastlog = Log("publish_skipped", id)
        /\ Posted(id)
        /\ JobsOf(jobs, id) # {}

====
